---- MODULE Spec2Model ----
(***************************************************************************)
(* A model of go-info-share's server: the KVStore (a map behind a          *)
(* sync.RWMutex, a slice of websocket connections behind a sync.Mutex)     *)
(* and the HTTP handlers that drive it, one goroutine per request.         *)
(*                                                                         *)
(* Writers are goroutines running setHandler, Readers run getHandler or    *)
(* getAllHandler, Conns are goroutines running wsHandler, each for one     *)
(* *websocket.Conn.  Every lock acquisition, every WriteMessage and every  *)
(* iteration of GetAll's copy loop is a step of its own.                   *)
(***************************************************************************)
EXTENDS Naturals, Sequences, FiniteSets, TLC

\* ------------------------------------------------------------------ bounds
\* net/http runs every request in a goroutine of its own.  The i-th /set request
\* runs in <<"w", i>>, the i-th /get or /getall request in <<"r", i>>, the i-th
\* /info-ws request in <<"c", i>>, which also names its *websocket.Conn.
NumWriters == 2
NumReaders == 2
NumConns == 2
\* Requests of all three kinds that arrive over a whole run.
MaxRequests == 4
\* Requests of all three kinds that arrive over a run of FairSpec or SendFairSpec.
MaxLiveRequests == 3

Writers == {<<"w", i>> : i \in 1..NumWriters}
Readers == {<<"r", i>> : i \in 1..NumReaders}
Conns   == {<<"c", i>> : i \in 1..NumConns}
Procs   == Writers \cup Readers \cup Conns

\* The strings requests carry.  The code looks at a key or a value only to
\* compare it with "" and to use it as a map key, so runs that differ by a
\* renaming of keys or of values are the same run: a request carries a string
\* an earlier request carried, or the first one none has carried yet.
KeySeq == <<"a", "b">>
ValSeq == <<"x", "y">>
Keys == {KeySeq[i] : i \in 1..Len(KeySeq)}
Vals == {ValSeq[i] : i \in 1..Len(ValSeq)}

\* The HTTP statuses the handlers write; NoReply is a request not answered yet.
NoReply        == 0
StatusOK       == 200
StatusBad      == 400
StatusNotFound == 404

None    == <<"none", 0>>
DataRef == <<"data", 0>>
MapRefs == {DataRef} \cup Readers

VARIABLES
  heap,      \* the maps that exist: heap[DataRef] is k.data, heap[r] the map GetAll made for r
  mu,        \* k.mu: the writer holding it (or None) and the readers holding it
  conns,     \* k.conns
  connMu,    \* k.connMu: the goroutine holding it, or None
  pc,        \* where each goroutine stands
  key,       \* setHandler's key, per writer
  value,     \* setHandler's value, per writer
  msg,       \* broadcast's marshalled data, per writer
  idx,       \* broadcast's position in range k.conns, per writer
  rkey,      \* getHandler's key, per reader
  rval,      \* what Get returned, <<v, ok>>, per reader
  copy,      \* the map GetAll returned (a reference), per reader
  todo,      \* the keys GetAll's range loop has still to visit, per reader
  resp,      \* the status each handler wrote
  \* ---- history (no code reads these)
  sent,      \* every WriteMessage that returned, in order
  commits,   \* per key, the values written to k.data, in order
  call,      \* per writer: its commit index and the registry around its Set
  obs,       \* per reader: what its Get/GetAll could have seen
  inv        \* per key: the last Set invoked and whether it raced another

histVars == <<sent, commits, call, obs, inv>>
vars == <<heap, mu, conns, connMu, pc, key, value, msg, idx, rkey, rval, copy, todo, resp,
          sent, commits, call, obs, inv>>

\* ------------------------------------------------------------------ helpers
EmptyMap == <<>>

\* Put, were an entry that exists never overwritten.
Put_KeepFirst(m, k, v) == IF k \in DOMAIN m THEN m ELSE [x \in (DOMAIN m) \cup {k} |-> IF x = k THEN v ELSE m[x]]

\* m[k] = v on a Go map.
Put(m, k, v) == [x \in (DOMAIN m) \cup {k} |-> IF x = k THEN v ELSE m[x]]

\* v, ok := m[k] on a Go map: the zero value and false when k is absent.
Lookup(m, k) == IF k \in DOMAIN m THEN <<m[k], TRUE>> ELSE <<"", FALSE>>

\* What k.data[key] = value can leave behind.  A Go map is not safe for
\* concurrent use: a write that races another write may be lost.
MapAssign(m, k, v, race) == IF race THEN {Put(m, k, v), m} ELSE {Put(m, k, v)}

\* What v, ok := k.data[key] can yield.  A read that races a write may see
\* the entry half written.
MapIndex(m, k, race) == IF race THEN {Lookup(m, k), <<"", TRUE>>} ELSE {Lookup(m, k)}

data == heap[DataRef]

\* Marshal, were the two fields filled the wrong way round.
Marshal_Swapped(k, v) == "{\"key\":\"" \o v \o "\",\"value\":\"" \o k \o "\"}"

\* json.Marshal(map[string]string{"key": key, "value": value}): keys sorted.
Marshal(k, v) == "{\"key\":\"" \o k \o "\",\"value\":\"" \o v \o "\"}"

\* CanLock, were Set to take no lock at all.
CanLock_Never(m) == TRUE

\* CanLock, were a writer let in past the readers.
CanLock_PastReaders(m) == m.writer = None

\* sync.RWMutex: Lock waits for the writer and every reader to leave,
\* RLock only for the writer.
CanLock(m)  == m.writer = None /\ m.readers = {}
CanRLock(m) == m.writer = None

\* The index removeConn's loop stops at (0: the loop ran to its end).
FirstIndex(s, c) ==
  IF \E i \in 1..Len(s) : s[i] = c
  THEN CHOOSE i \in 1..Len(s) : s[i] = c /\ \A j \in 1..(i - 1) : s[j] # c
  ELSE 0

\* RemoveAt, were the last connection dropped whichever one was asked for.
RemoveAt_Last(s, c) == IF s = <<>> THEN s ELSE SubSeq(s, 1, Len(s) - 1)

\* RemoveAt, were the tail k.conns[i+1:] forgotten.
RemoveAt_Truncate(s, c) ==
  LET i == FirstIndex(s, c)
  IN  IF i = 0 THEN s ELSE SubSeq(s, 1, i - 1)

\* append(k.conns[:i], k.conns[i+1:]...) at the first i with k.conns[i] == conn.
RemoveAt(s, c) ==
  LET i == FirstIndex(s, c)
  IN  IF i = 0 THEN s ELSE SubSeq(s, 1, i - 1) \o SubSeq(s, i + 1, Len(s))

\* The strings of seq a new request may carry, given the ones carried so far.
Choices(seq, used) ==
  {seq[i] : i \in {n \in 1..Len(seq) : \A j \in 1..(n - 1) : seq[j] \in used}}

KeyChoices == Choices(KeySeq, {key[w] : w \in Writers} \cup {rkey[r] : r \in Readers})
ValChoices == Choices(ValSeq, {value[w] : w \in Writers})

\* A request arrives for goroutine p: the next of its kind, within the run's budget.
Arrives(p) ==
  /\ pc[p] = "new"
  /\ Cardinality({q \in Procs : pc[q] # "new"}) < MaxRequests
  /\ IF p[2] = 1 THEN TRUE ELSE pc[<<p[1], p[2] - 1>>] # "new"

\* ------------------------------------------------------------------ history helpers
\* A Set between setHandler's call of it and its return.
InFlight(w) == pc[w] \in {"Set", "Set_write", "broadcast", "broadcast_loop"}
\* A Set that has not written the map yet.
PreCommit(w) == pc[w] \in {"Set", "Set_write"}
\* A Get or GetAll between its call and its return.
Reading(r) == pc[r] \in {"Get", "Get_read", "GetAll", "GetAll_copy"}
\* Connections whose addConn has returned and whose removeConn has not removed them.
Registered == {c \in Conns : pc[c] \in {"ReadMessage", "removeConn", "removeConn_scan"}}
\* Connections whose removeConn has returned.
Removed == {c \in Conns : pc[c] = "closed"}

\* Goroutines inside k.mu's critical sections.
WritersIn == {w \in Writers : pc[w] = "Set_write"}
ReadersIn == {r \in Readers : pc[r] \in {"Get_read", "GetAll_copy"}}
\* The sends in progress: the broadcasts that are inside WriteMessage, each
\* with the position in k.conns of the connection it is sending to.
Sending == {<<w, idx[w]>> : w \in {o \in Writers : pc[o] = "broadcast_loop" /\ idx[o] <= Len(conns)}}
\* Writers whose Set has returned.
Done == {w \in Writers : pc[w] = "Set_done"}

\* call[w], of writer w's Set:
\*   ci      the index in commits[key[w]] of its write (0: not written yet)
\*   stable  the connections registered when it was called and ever since
\*   gone    the connections whose removeConn had returned when it was called
\*   nosubs  k.conns was empty when it was called and ever since
\*   conc    the writers whose Set was running when it was called
\*   prior   the writers whose Set had returned when it was called
\*   gci     the rank of its write among the writes of all keys (0: not written yet)
\*   during  the sends in progress when it was called
NoCall == [ci |-> 0, stable |-> {}, gone |-> {}, nosubs |-> FALSE, conc |-> {},
           prior |-> {}, gci |-> 0, during |-> {}]
\* inv[k], of key k:
\*   set  some Set(k, _) has been called;  v  the value of the last one called
\*   det  no other Set(k, _) was still to write when that one was called
NoInv  == [v |-> "", set |-> FALSE, det |-> TRUE]
\* obs[r], of reader r's Get or GetAll:
\*   quiet    no Set was running when it was called, and none was called since
\*   last     inv[rkey[r]] when Get was called
\*   everset  some Set(rkey[r], _) had been called before Get returned
\*   floor    the highest commit index notified for rkey[r] when Get was called
\*   cands    what rkey[r] held when Get was called, and the values of the
\*            Set(rkey[r], _) calls running then or called since
\*   seen     the contents k.data had from GetAll's call on
\*   disjoint, expect   when GetAll was called: no two returned Sets shared a
\*            key, and the map from each returned Set's key to its value
\*   during   the sends in progress when Get or GetAll was called
NoObs  == [quiet |-> FALSE, last |-> NoInv, everset |-> FALSE, floor |-> 0, cands |-> {},
           seen |-> {}, disjoint |-> FALSE, expect |-> <<>>, during |-> {}]

\* The highest commit index of k among the notifications sent so far (0: none).
Floor(k) ==
  LET C == {sent[i].ci : i \in {j \in 1..Len(sent) : key[sent[j].by] = k}}
  IN  IF C = {} THEN 0 ELSE CHOOSE m \in C : \A n \in C : n <= m

\* ------------------------------------------------------------------ Init
Init ==
  /\ heap = [r \in MapRefs |-> EmptyMap]
  /\ mu = [writer |-> None, readers |-> {}]
  /\ conns = <<>>
  /\ connMu = None
  /\ pc = [p \in Procs |-> "new"]
  /\ key = [w \in Writers |-> ""]
  /\ value = [w \in Writers |-> ""]
  /\ msg = [w \in Writers |-> ""]
  /\ idx = [w \in Writers |-> 0]
  /\ rkey = [r \in Readers |-> ""]
  /\ rval = [r \in Readers |-> <<"", FALSE>>]
  /\ copy = [r \in Readers |-> None]
  /\ todo = [r \in Readers |-> {}]
  /\ resp = [p \in Writers \cup Readers |-> NoReply]
  /\ sent = <<>>
  /\ commits = [k \in Keys |-> <<>>]
  /\ call = [w \in Writers |-> NoCall]
  /\ obs = [r \in Readers |-> NoObs]
  /\ inv = [k \in Keys |-> NoInv]

\* ------------------------------------------------------------------ setHandler, Set
\* setHandler, were only the key compared with "".
setHandler_KeyOnly(w, k, v) ==
  /\ Arrives(w)
  /\ IF k = ""
     THEN /\ resp' = [resp EXCEPT ![w] = StatusBad]
          /\ pc' = [pc EXCEPT ![w] = "rejected"]
          /\ UNCHANGED <<key, value, call, inv, obs>>
     ELSE /\ key' = [key EXCEPT ![w] = k]
          /\ value' = [value EXCEPT ![w] = v]
          /\ pc' = [pc EXCEPT ![w] = "Set"]
          /\ call' = [call EXCEPT ![w] = [ci |-> 0, stable |-> Registered, gone |-> Removed,
                                          nosubs |-> conns = <<>>,
                                          conc |-> {o \in Writers : InFlight(o)},
                                          prior |-> Done, gci |-> 0, during |-> Sending]]
          /\ inv' = [inv EXCEPT ![k] =
                       [v |-> v, set |-> TRUE,
                        det |-> \A o \in Writers : ~(PreCommit(o) /\ key[o] = k)]]
          /\ obs' = [r \in Readers |->
                       IF Reading(r)
                       THEN [obs[r] EXCEPT !.quiet = FALSE,
                                           !.everset = @ \/ rkey[r] = k,
                                           !.cands = IF rkey[r] = k THEN @ \cup {<<v, TRUE>>} ELSE @]
                       ELSE obs[r]]
          /\ UNCHANGED resp
  /\ UNCHANGED <<heap, mu, conns, connMu, msg, idx, rkey, rval, copy, todo, sent, commits>>

\* key == "" || value == "": 400 and return; otherwise kv.Set(key, value) is called
setHandler(w, k, v) ==
  /\ Arrives(w)
  /\ IF k = "" \/ v = ""
     THEN /\ resp' = [resp EXCEPT ![w] = StatusBad]
          /\ pc' = [pc EXCEPT ![w] = "rejected"]
          /\ UNCHANGED <<key, value, call, inv, obs>>
     ELSE /\ key' = [key EXCEPT ![w] = k]
          /\ value' = [value EXCEPT ![w] = v]
          /\ pc' = [pc EXCEPT ![w] = "Set"]
          /\ call' = [call EXCEPT ![w] = [ci |-> 0, stable |-> Registered, gone |-> Removed,
                                          nosubs |-> conns = <<>>,
                                          conc |-> {o \in Writers : InFlight(o)},
                                          prior |-> Done, gci |-> 0, during |-> Sending]]
          /\ inv' = [inv EXCEPT ![k] =
                       [v |-> v, set |-> TRUE,
                        det |-> \A o \in Writers : ~(PreCommit(o) /\ key[o] = k)]]
          /\ obs' = [r \in Readers |->
                       IF Reading(r)
                       THEN [obs[r] EXCEPT !.quiet = FALSE,
                                           !.everset = @ \/ rkey[r] = k,
                                           !.cands = IF rkey[r] = k THEN @ \cup {<<v, TRUE>>} ELSE @]
                       ELSE obs[r]]
          /\ UNCHANGED resp
  /\ UNCHANGED <<heap, mu, conns, connMu, msg, idx, rkey, rval, copy, todo, sent, commits>>

\* k.mu.Lock()
Set_Lock(w) ==
  /\ pc[w] = "Set"
  /\ CanLock(mu)
  /\ mu' = [mu EXCEPT !.writer = w]
  /\ pc' = [pc EXCEPT ![w] = "Set_write"]
  /\ UNCHANGED <<heap, conns, connMu, key, value, msg, idx, rkey, rval, copy, todo, resp>>
  /\ UNCHANGED histVars

\* Set_Write, were the map left as it was.
Set_Write_Skipped(w) ==
  /\ pc[w] = "Set_write"
  /\ mu' = [mu EXCEPT !.writer = None]
  /\ pc' = [pc EXCEPT ![w] = "broadcast"]
  /\ UNCHANGED <<heap, conns, connMu, key, value, msg, idx, rkey, rval, copy, todo, resp>>
  /\ UNCHANGED histVars

\* Set_Write, were the map replaced by one holding the new entry alone.
Set_Write_Replace(w) ==
  /\ pc[w] = "Set_write"
  /\ \E m \in MapAssign(EmptyMap, key[w], value[w], WritersIn # {w}) :
       heap' = [heap EXCEPT ![DataRef] = m]
  /\ mu' = [mu EXCEPT !.writer = None]
  /\ pc' = [pc EXCEPT ![w] = "broadcast"]
  /\ commits' = [commits EXCEPT ![key[w]] = Append(@, value[w])]
  /\ call' = [call EXCEPT ![w].ci = Len(commits[key[w]]) + 1,
                          ![w].gci = Cardinality({o \in Writers : call[o].ci > 0}) + 1]
  /\ obs' = [r \in Readers |->
               IF pc[r] \in {"GetAll", "GetAll_copy"}
               THEN [obs[r] EXCEPT !.seen = @ \cup {heap'[DataRef]}]
               ELSE obs[r]]
  /\ UNCHANGED <<conns, connMu, key, value, msg, idx, rkey, rval, copy, todo, resp, sent, inv>>

\* Set_Write, were k.mu still held when broadcast is called.
Set_Write_Locked(w) ==
  /\ pc[w] = "Set_write"
  /\ \E m \in MapAssign(data, key[w], value[w], WritersIn # {w}) :
       heap' = [heap EXCEPT ![DataRef] = m]
  /\ mu' = mu
  /\ pc' = [pc EXCEPT ![w] = "broadcast"]
  /\ commits' = [commits EXCEPT ![key[w]] = Append(@, value[w])]
  /\ call' = [call EXCEPT ![w].ci = Len(commits[key[w]]) + 1,
                          ![w].gci = Cardinality({o \in Writers : call[o].ci > 0}) + 1]
  /\ obs' = [r \in Readers |->
               IF pc[r] \in {"GetAll", "GetAll_copy"}
               THEN [obs[r] EXCEPT !.seen = @ \cup {heap'[DataRef]}]
               ELSE obs[r]]
  /\ UNCHANGED <<conns, connMu, key, value, msg, idx, rkey, rval, copy, todo, resp, sent, inv>>

\* k.data[key] = value; k.mu.Unlock()
Set_Write(w) ==
  /\ pc[w] = "Set_write"
  /\ \E m \in MapAssign(data, key[w], value[w], WritersIn # {w}) :
       heap' = [heap EXCEPT ![DataRef] = m]
  /\ mu' = [mu EXCEPT !.writer = None]
  /\ pc' = [pc EXCEPT ![w] = "broadcast"]
  /\ commits' = [commits EXCEPT ![key[w]] = Append(@, value[w])]
  /\ call' = [call EXCEPT ![w].ci = Len(commits[key[w]]) + 1,
                          ![w].gci = Cardinality({o \in Writers : call[o].ci > 0}) + 1]
  /\ obs' = [r \in Readers |->
               IF pc[r] \in {"GetAll", "GetAll_copy"}
               THEN [obs[r] EXCEPT !.seen = @ \cup {heap'[DataRef]}]
               ELSE obs[r]]
  /\ UNCHANGED <<conns, connMu, key, value, msg, idx, rkey, rval, copy, todo, resp, sent, inv>>

\* ------------------------------------------------------------------ broadcast
\* broadcast_Lock, were the loop started without waiting for k.connMu.
broadcast_Lock_NoWait(w) ==
  /\ pc[w] = "broadcast"
  /\ msg' = [msg EXCEPT ![w] = Marshal(key[w], value[w])]
  /\ connMu' = w
  /\ idx' = [idx EXCEPT ![w] = 1]
  /\ pc' = [pc EXCEPT ![w] = "broadcast_loop"]
  /\ UNCHANGED <<heap, mu, conns, key, value, rkey, rval, copy, todo, resp>>
  /\ UNCHANGED histVars

\* data, _ := json.Marshal(msg); k.connMu.Lock(); the range loop starts
broadcast_Lock(w) ==
  /\ pc[w] = "broadcast"
  /\ connMu = None
  /\ msg' = [msg EXCEPT ![w] = Marshal(key[w], value[w])]
  /\ connMu' = w
  /\ idx' = [idx EXCEPT ![w] = 1]
  /\ pc' = [pc EXCEPT ![w] = "broadcast_loop"]
  /\ UNCHANGED <<heap, mu, conns, key, value, rkey, rval, copy, todo, resp>>
  /\ UNCHANGED histVars

\* broadcast_WriteMessage, were the loop left at the first error.
broadcast_WriteMessage_Break(w, ok) ==
  /\ pc[w] = "broadcast_loop"
  /\ idx[w] <= Len(conns)
  /\ sent' = Append(sent, [conn |-> conns[idx[w]], data |-> msg[w], ok |-> ok,
                           by |-> w, ci |-> call[w].ci])
  /\ idx' = [idx EXCEPT ![w] = IF ok THEN @ + 1 ELSE Len(conns) + 1]
  /\ UNCHANGED <<heap, mu, conns, connMu, pc, key, value, msg, rkey, rval, copy, todo, resp,
                 commits, call, obs, inv>>

\* broadcast_WriteMessage, were a connection whose send failed taken out of k.conns.
broadcast_WriteMessage_Prune(w, ok) ==
  /\ pc[w] = "broadcast_loop"
  /\ idx[w] <= Len(conns)
  /\ sent' = Append(sent, [conn |-> conns[idx[w]], data |-> msg[w], ok |-> ok,
                           by |-> w, ci |-> call[w].ci])
  /\ idx' = [idx EXCEPT ![w] = IF ok THEN @ + 1 ELSE @]
  /\ conns' = IF ok THEN conns ELSE RemoveAt(conns, conns[idx[w]])
  /\ UNCHANGED <<heap, mu, connMu, pc, key, value, msg, rkey, rval, copy, todo, resp,
                 commits, call, obs, inv>>

\* conn.WriteMessage(websocket.TextMessage, data) returns, with an error or
\* without; the loop goes on either way
broadcast_WriteMessage(w, ok) ==
  /\ pc[w] = "broadcast_loop"
  /\ idx[w] <= Len(conns)
  /\ sent' = Append(sent, [conn |-> conns[idx[w]], data |-> msg[w], ok |-> ok,
                           by |-> w, ci |-> call[w].ci])
  /\ idx' = [idx EXCEPT ![w] = @ + 1]
  /\ UNCHANGED <<heap, mu, conns, connMu, pc, key, value, msg, rkey, rval, copy, todo, resp,
                 commits, call, obs, inv>>

\* broadcast_Unlock, were k.connMu left locked.
broadcast_Unlock_Held(w) ==
  /\ pc[w] = "broadcast_loop"
  /\ idx[w] > Len(conns)
  /\ resp' = [resp EXCEPT ![w] = StatusOK]
  /\ pc' = [pc EXCEPT ![w] = "Set_done"]
  /\ UNCHANGED <<heap, mu, conns, connMu, key, value, msg, idx, rkey, rval, copy, todo>>
  /\ UNCHANGED histVars

\* the loop is over: k.connMu.Unlock(), Set returns, setHandler writes 200 "ok"
broadcast_Unlock(w) ==
  /\ pc[w] = "broadcast_loop"
  /\ idx[w] > Len(conns)
  /\ connMu' = None
  /\ resp' = [resp EXCEPT ![w] = StatusOK]
  /\ pc' = [pc EXCEPT ![w] = "Set_done"]
  /\ UNCHANGED <<heap, mu, conns, key, value, msg, idx, rkey, rval, copy, todo>>
  /\ UNCHANGED histVars

\* ------------------------------------------------------------------ getHandler, Get
\* key == "": 400 and return; otherwise kv.Get(key) is called
getHandler(r, k) ==
  /\ Arrives(r)
  /\ IF k = ""
     THEN /\ resp' = [resp EXCEPT ![r] = StatusBad]
          /\ pc' = [pc EXCEPT ![r] = "rejected"]
          /\ UNCHANGED <<rkey, obs>>
     ELSE /\ rkey' = [rkey EXCEPT ![r] = k]
          /\ pc' = [pc EXCEPT ![r] = "Get"]
          /\ obs' = [obs EXCEPT ![r] =
                       [NoObs EXCEPT
                          !.quiet = \A w \in Writers : ~InFlight(w),
                          !.during = Sending,
                          !.last = inv[k],
                          !.everset = inv[k].set,
                          !.floor = Floor(k),
                          !.cands = {Lookup(data, k)} \cup
                                    {<<value[w], TRUE>> :
                                       w \in {o \in Writers : InFlight(o) /\ key[o] = k}}]]
          /\ UNCHANGED resp
  /\ UNCHANGED <<heap, mu, conns, connMu, key, value, msg, idx, rval, copy, todo,
                 sent, commits, call, inv>>

\* k.mu.RLock()
Get_RLock(r) ==
  /\ pc[r] = "Get"
  /\ CanRLock(mu)
  /\ mu' = [mu EXCEPT !.readers = @ \cup {r}]
  /\ pc' = [pc EXCEPT ![r] = "Get_read"]
  /\ UNCHANGED <<heap, conns, connMu, key, value, msg, idx, rkey, rval, copy, todo, resp>>
  /\ UNCHANGED histVars

\* v, ok := k.data[key]; k.mu.RUnlock(); Get returns, getHandler writes v or 404
Get_Read(r) ==
  /\ pc[r] = "Get_read"
  /\ \E res \in MapIndex(data, rkey[r], WritersIn # {}) :
       rval' = [rval EXCEPT ![r] = res]
  /\ mu' = [mu EXCEPT !.readers = @ \ {r}]
  /\ resp' = [resp EXCEPT ![r] = IF rval'[r][2] THEN StatusOK ELSE StatusNotFound]
  /\ pc' = [pc EXCEPT ![r] = "Get_done"]
  /\ UNCHANGED <<heap, conns, connMu, key, value, msg, idx, rkey, copy, todo>>
  /\ UNCHANGED histVars

\* ------------------------------------------------------------------ getAllHandler, GetAll
\* kv.GetAll() is called
getAllHandler(r) ==
  /\ Arrives(r)
  /\ pc' = [pc EXCEPT ![r] = "GetAll"]
  /\ obs' = [obs EXCEPT ![r] =
               [NoObs EXCEPT
                  !.quiet = \A w \in Writers : ~InFlight(w),
                  !.during = Sending,
                  !.seen = {data},
                  !.disjoint = \A w1, w2 \in Done : key[w1] = key[w2] => w1 = w2,
                  !.expect = [k \in {key[w] : w \in Done} |->
                                value[CHOOSE w \in Done : key[w] = k]]]]
  /\ UNCHANGED <<heap, mu, conns, connMu, key, value, msg, idx, rkey, rval, copy, todo, resp,
                 sent, commits, call, inv>>

\* GetAll_RLock, were copy := k.data, the store's own map.
GetAll_RLock_Alias(r) ==
  /\ pc[r] = "GetAll"
  /\ CanRLock(mu)
  /\ mu' = [mu EXCEPT !.readers = @ \cup {r}]
  /\ copy' = [copy EXCEPT ![r] = DataRef]
  /\ todo' = [todo EXCEPT ![r] = DOMAIN data]
  /\ pc' = [pc EXCEPT ![r] = "GetAll_copy"]
  /\ UNCHANGED <<heap, conns, connMu, key, value, msg, idx, rkey, rval, resp>>
  /\ UNCHANGED histVars

\* k.mu.RLock(); copy := make(map[string]string), a map nothing else refers
\* to (heap[r]); the range loop starts
GetAll_RLock(r) ==
  /\ pc[r] = "GetAll"
  /\ CanRLock(mu)
  /\ mu' = [mu EXCEPT !.readers = @ \cup {r}]
  /\ copy' = [copy EXCEPT ![r] = r]
  /\ heap' = [heap EXCEPT ![r] = EmptyMap]
  /\ todo' = [todo EXCEPT ![r] = DOMAIN data]
  /\ pc' = [pc EXCEPT ![r] = "GetAll_copy"]
  /\ UNCHANGED <<conns, connMu, key, value, msg, idx, rkey, rval, resp>>
  /\ UNCHANGED histVars

\* GetAll_Copy, were the loop left after its first entry.
GetAll_Copy_Once(r, k) ==
  /\ pc[r] = "GetAll_copy"
  /\ k \in todo[r]
  /\ heap' = [heap EXCEPT ![copy[r]] = Put(@, k, data[k])]
  /\ todo' = [todo EXCEPT ![r] = {}]
  /\ UNCHANGED <<mu, conns, connMu, pc, key, value, msg, idx, rkey, rval, copy, resp>>
  /\ UNCHANGED histVars

\* copy[k] = v, for one entry of k.data (Go ranges over a map in no fixed order)
GetAll_Copy(r, k) ==
  /\ pc[r] = "GetAll_copy"
  /\ k \in todo[r]
  /\ heap' = [heap EXCEPT ![copy[r]] = Put(@, k, data[k])]
  /\ todo' = [todo EXCEPT ![r] = @ \ {k}]
  /\ UNCHANGED <<mu, conns, connMu, pc, key, value, msg, idx, rkey, rval, copy, resp>>
  /\ UNCHANGED histVars

\* the loop is over: k.mu.RUnlock(), GetAll returns copy, getAllHandler encodes it
GetAll_RUnlock(r) ==
  /\ pc[r] = "GetAll_copy"
  /\ todo[r] = {}
  /\ mu' = [mu EXCEPT !.readers = @ \ {r}]
  /\ resp' = [resp EXCEPT ![r] = StatusOK]
  /\ pc' = [pc EXCEPT ![r] = "GetAll_done"]
  /\ UNCHANGED <<heap, conns, connMu, key, value, msg, idx, rkey, rval, copy, todo>>
  /\ UNCHANGED histVars

\* ------------------------------------------------------------------ wsHandler, addConn, removeConn
\* upgrader.Upgrade: a connection and kv.addConn(conn) is called, or an error
\* and the handler returns
wsHandler_Upgrade(c, ok) ==
  /\ Arrives(c)
  /\ pc' = [pc EXCEPT ![c] = IF ok THEN "addConn" ELSE "failed"]
  /\ UNCHANGED <<heap, mu, conns, connMu, key, value, msg, idx, rkey, rval, copy, todo, resp>>
  /\ UNCHANGED histVars

\* k.connMu.Lock()
addConn_Lock(c) ==
  /\ pc[c] = "addConn"
  /\ connMu = None
  /\ connMu' = c
  /\ pc' = [pc EXCEPT ![c] = "addConn_append"]
  /\ UNCHANGED <<heap, mu, conns, key, value, msg, idx, rkey, rval, copy, todo, resp>>
  /\ UNCHANGED histVars

\* k.conns = append(k.conns, conn); k.connMu.Unlock()
addConn_Append(c) ==
  /\ pc[c] = "addConn_append"
  /\ conns' = Append(conns, c)
  /\ connMu' = None
  /\ pc' = [pc EXCEPT ![c] = "ReadMessage"]
  /\ call' = [w \in Writers |-> IF InFlight(w) THEN [call[w] EXCEPT !.nosubs = FALSE]
                                               ELSE call[w]]
  /\ UNCHANGED <<heap, mu, key, value, msg, idx, rkey, rval, copy, todo, resp,
                 sent, commits, obs, inv>>

\* conn.ReadMessage(): a message (ignored, the loop goes on) or an error (break)
wsHandler_ReadMessage(c, err) ==
  /\ pc[c] = "ReadMessage"
  /\ pc' = [pc EXCEPT ![c] = IF err THEN "removeConn" ELSE "ReadMessage"]
  /\ UNCHANGED <<heap, mu, conns, connMu, key, value, msg, idx, rkey, rval, copy, todo, resp>>
  /\ UNCHANGED histVars

\* the deferred kv.removeConn(conn): k.connMu.Lock()
removeConn_Lock(c) ==
  /\ pc[c] = "removeConn"
  /\ connMu = None
  /\ connMu' = c
  /\ pc' = [pc EXCEPT ![c] = "removeConn_scan"]
  /\ UNCHANGED <<heap, mu, conns, key, value, msg, idx, rkey, rval, copy, todo, resp>>
  /\ UNCHANGED histVars

\* the loop over k.conns; k.connMu.Unlock(); the handler returns
removeConn_Scan(c) ==
  /\ pc[c] = "removeConn_scan"
  /\ conns' = RemoveAt(conns, c)
  /\ connMu' = None
  /\ pc' = [pc EXCEPT ![c] = "closed"]
  /\ call' = [w \in Writers |-> IF InFlight(w) THEN [call[w] EXCEPT !.stable = @ \ {c}]
                                               ELSE call[w]]
  /\ UNCHANGED <<heap, mu, key, value, msg, idx, rkey, rval, copy, todo, resp,
                 sent, commits, obs, inv>>

\* ------------------------------------------------------------------ Next
Next ==
  \/ \E w \in Writers, k \in KeyChoices \cup {""}, v \in ValChoices \cup {""} : setHandler(w, k, v)
  \/ \E w \in Writers : Set_Lock(w)
  \/ \E w \in Writers : Set_Write(w)
  \/ \E w \in Writers : broadcast_Lock(w)
  \/ \E w \in Writers, ok \in BOOLEAN : broadcast_WriteMessage(w, ok)
  \/ \E w \in Writers : broadcast_Unlock(w)
  \/ \E r \in Readers, k \in KeyChoices \cup {""} : getHandler(r, k)
  \/ \E r \in Readers : Get_RLock(r)
  \/ \E r \in Readers : Get_Read(r)
  \/ \E r \in Readers : getAllHandler(r)
  \/ \E r \in Readers : GetAll_RLock(r)
  \/ \E r \in Readers, k \in Keys : GetAll_Copy(r, k)
  \/ \E r \in Readers : GetAll_RUnlock(r)
  \/ \E c \in Conns, ok \in BOOLEAN : wsHandler_Upgrade(c, ok)
  \/ \E c \in Conns : addConn_Lock(c)
  \/ \E c \in Conns : addConn_Append(c)
  \/ \E c \in Conns, err \in BOOLEAN : wsHandler_ReadMessage(c, err)
  \/ \E c \in Conns : removeConn_Lock(c)
  \/ \E c \in Conns : removeConn_Scan(c)

Spec == Init /\ [][Next]_vars

\* ------------------------------------------------------------------ scheduling
\* Fewer than MaxLiveRequests requests have arrived.
LiveArrives == Cardinality({q \in Procs : pc[q] # "new"}) < MaxLiveRequests

\* Next, of the runs of at most MaxLiveRequests requests.
NextLive ==
  \/ \E w \in Writers, k \in KeyChoices \cup {""}, v \in ValChoices \cup {""} :
       LiveArrives /\ setHandler(w, k, v)
  \/ \E w \in Writers : Set_Lock(w)
  \/ \E w \in Writers : Set_Write(w)
  \/ \E w \in Writers : broadcast_Lock(w)
  \/ \E w \in Writers, ok \in BOOLEAN : broadcast_WriteMessage(w, ok)
  \/ \E w \in Writers : broadcast_Unlock(w)
  \/ \E r \in Readers, k \in KeyChoices \cup {""} : LiveArrives /\ getHandler(r, k)
  \/ \E r \in Readers : Get_RLock(r)
  \/ \E r \in Readers : Get_Read(r)
  \/ \E r \in Readers : LiveArrives /\ getAllHandler(r)
  \/ \E r \in Readers : GetAll_RLock(r)
  \/ \E r \in Readers, k \in Keys : GetAll_Copy(r, k)
  \/ \E r \in Readers : GetAll_RUnlock(r)
  \/ \E c \in Conns, ok \in BOOLEAN : LiveArrives /\ wsHandler_Upgrade(c, ok)
  \/ \E c \in Conns : addConn_Lock(c)
  \/ \E c \in Conns : addConn_Append(c)
  \/ \E c \in Conns, err \in BOOLEAN : wsHandler_ReadMessage(c, err)
  \/ \E c \in Conns : removeConn_Lock(c)
  \/ \E c \in Conns : removeConn_Scan(c)

\* What a goroutine does by itself once the scheduler runs it: taking a lock
\* that is free, the statements inside a critical section, unlocking, returning.
SetStep(w) == Set_Lock(w) \/ Set_Write(w) \/ broadcast_Lock(w) \/ broadcast_Unlock(w)
ReadStep(r) ==
  \/ Get_RLock(r) \/ Get_Read(r)
  \/ GetAll_RLock(r) \/ (\E k \in Keys : GetAll_Copy(r, k)) \/ GetAll_RUnlock(r)
ConnStep(c) == addConn_Lock(c) \/ addConn_Append(c) \/ removeConn_Lock(c) \/ removeConn_Scan(c)
\* conn.WriteMessage returns: this is up to the peer and the network, the code
\* sets no write deadline.
SendStep(w) == \E ok \in BOOLEAN : broadcast_WriteMessage(w, ok)

\* The Go scheduler runs every runnable goroutine; a request's arrival, a
\* subscriber's inbound message and a send's return are not the scheduler's.
FairSpec ==
  /\ Init /\ [][NextLive]_vars
  /\ \A w \in Writers : WF_vars(SetStep(w))
  /\ \A r \in Readers : WF_vars(ReadStep(r))
  /\ \A c \in Conns : WF_vars(ConnStep(c))

\* FairSpec, and every send returns.
SendFairSpec ==
  /\ Init /\ [][NextLive]_vars
  /\ \A w \in Writers : WF_vars(SetStep(w))
  /\ \A r \in Readers : WF_vars(ReadStep(r))
  /\ \A c \in Conns : WF_vars(ConnStep(c))
  /\ \A w \in Writers : WF_vars(SendStep(w))

\* ------------------------------------------------------------------ what the claims speak of
\* The notifications writer w's broadcast has sent to connection c so far.
SendsTo(w, c) == {i \in 1..Len(sent) : sent[i].by = w /\ sent[i].conn = c}
SendsBy(w) == {i \in 1..Len(sent) : sent[i].by = w}

\* The text a subscriber is to read for key k and value v.
Notification(k, v) ==
  CASE k = "a" /\ v = "x" -> "{\"key\":\"a\",\"value\":\"x\"}"
    [] k = "a" /\ v = "y" -> "{\"key\":\"a\",\"value\":\"y\"}"
    [] k = "b" /\ v = "x" -> "{\"key\":\"b\",\"value\":\"x\"}"
    [] k = "b" /\ v = "y" -> "{\"key\":\"b\",\"value\":\"y\"}"
    [] OTHER -> "?"

\* C1: a Get(k) called after every Set has returned, the last Set(k, v) called
\* not having raced another Set on k, returns (v, true); a Get(k) on a key no
\* Set was ever called on returns not-found.
C1_GetReturnsLastSet ==
  \A r \in Readers :
    pc[r] = "Get_done" =>
      /\ (obs[r].quiet /\ obs[r].last.set /\ obs[r].last.det)
           => rval[r] = <<obs[r].last.v, TRUE>>
      /\ ~obs[r].everset => rval[r] = <<"", FALSE>>

\* C1's case: two Sets on one key with different values, one after the other,
\* then a Get of that key.
C1_Witness ==
  \E r \in Readers :
    /\ pc[r] = "Get_done"
    /\ obs[r].quiet /\ obs[r].last.set /\ obs[r].last.det
    /\ Len(commits[rkey[r]]) = 2
    /\ commits[rkey[r]][1] # commits[rkey[r]][2]
    /\ \A w \in Writers : call[w].conc = {}

\* C2: a Set that has returned has sent every connection registered from its
\* call to its return exactly one notification; every notification ever sent
\* is the text of its Set's key and value; a Set during which k.conns stayed
\* empty sent none.
C2_OneSendPerSubscriber ==
  /\ \A w \in Done :
       /\ \A c \in call[w].stable : Cardinality(SendsTo(w, c)) = 1
       /\ call[w].nosubs => SendsBy(w) = {}
  /\ \A i \in 1..Len(sent) :
       /\ pc[sent[i].by] \in {"broadcast_loop", "Set_done"}
       /\ sent[i].data = Notification(key[sent[i].by], value[sent[i].by])

\* C2's case: a Set that returned with two connections registered throughout.
C2_Witness ==
  \E w \in Done : Cardinality(call[w].stable) = 2 /\ Cardinality(SendsBy(w)) = 2

\* C3: no notification of a Set goes to a connection whose removeConn had
\* returned when the Set was called, and such a Set still sends one to every
\* connection that stays registered.
C3_NoSendAfterRemove ==
  /\ \A i \in 1..Len(sent) : sent[i].conn \notin call[sent[i].by].gone
  /\ \A w \in Done :
       call[w].gone # {} => \A c \in call[w].stable : SendsTo(w, c) # {}

\* C3's case: a Set called after one connection was removed, another still there.
C3_Witness ==
  \E w \in Done : call[w].gone # {} /\ call[w].stable # {} /\ SendsBy(w) # {}

\* C4: when a notification is sent its write is already in the map: the key
\* is present and holds the notified write or a later one; a Get called after
\* the notification was sent finds the key, with a value committed no earlier.
C4_NotifiedIsReadable ==
  /\ \A i \in 1..Len(sent) :
       LET w == sent[i].by
           k == key[w]
       IN  /\ sent[i].ci \in 1..Len(commits[k])
           /\ commits[k][sent[i].ci] = value[w]
           /\ k \in DOMAIN data
           /\ data[k] = commits[k][Len(commits[k])]
  /\ \A r \in Readers :
       (pc[r] = "Get_done" /\ obs[r].floor > 0) =>
          /\ rval[r][2]
          /\ \E j \in obs[r].floor..Len(commits[rkey[r]]) : commits[rkey[r]][j] = rval[r][1]

\* C4's case: a Get called after a notification of its key was sent.
C4_Witness ==
  \E r \in Readers : pc[r] = "Get_done" /\ obs[r].floor > 0 /\ rval[r][2]

\* C5: a Set one of whose sends failed has still sent every connection that
\* stayed registered one notification, none twice, its value is stored and
\* its request answered 200.
C5_FailedSendIsSkipped ==
  \A w \in Done :
    (\E i \in SendsBy(w) : ~sent[i].ok) =>
       /\ \A c \in call[w].stable : Cardinality(SendsTo(w, c)) = 1
       /\ \A c \in Conns : Cardinality(SendsTo(w, c)) <= 1
       /\ resp[w] = StatusOK
       /\ call[w].ci \in 1..Len(commits[key[w]])
       /\ commits[key[w]][call[w].ci] = value[w]
       /\ key[w] \in DOMAIN data

\* C5's case: the send to the first connection failed, the second was still sent to.
C5_Witness ==
  \E w \in Done :
    \E i, j \in SendsBy(w) :
      /\ i < j /\ ~sent[i].ok /\ sent[i].conn # sent[j].conn
      /\ {sent[i].conn, sent[j].conn} \subseteq call[w].stable

\* C6: with no two Sets on one key, a GetAll called once every Set has
\* returned is the map from each Set's key to its value: no write is lost,
\* however the Sets ran.
C6_NoLostUpdate ==
  \A r \in Readers :
    (pc[r] = "GetAll_done" /\ obs[r].quiet /\ obs[r].disjoint)
      => heap[copy[r]] = obs[r].expect

\* C6's case: two Sets on different keys that ran at the same time, then GetAll.
C6_Witness ==
  \E r \in Readers :
    /\ pc[r] = "GetAll_done" /\ obs[r].quiet /\ obs[r].disjoint
    /\ Cardinality(DOMAIN obs[r].expect) = 2
    /\ \E w \in Writers : call[w].conc # {}

\* C7: while a Set is inside k.mu's critical section no other Set, no Get and
\* no GetAll is inside theirs; a Get returns what its key held when it was
\* called or the value of a Set on that key that ran during it.
C7_ReadWriteExclusion ==
  /\ \A w \in WritersIn : WritersIn = {w} /\ ReadersIn = {}
  /\ \A r \in Readers : pc[r] = "Get_done" => rval[r] \in obs[r].cands

\* C7's case: a Get and another reader inside their critical sections at the
\* same time, a Set on the Get's key waiting for the lock.
C7_Witness ==
  \E r1, r2 \in ReadersIn, w \in Writers :
    /\ r1 # r2
    /\ pc[r1] = "Get_read"
    /\ pc[w] = "Set" /\ key[w] = rkey[r1]
    /\ Lookup(data, rkey[r1]) # <<value[w], TRUE>>

\* The last element of a sequence that has one.
Last(s) == s[Len(s)]

\* C8: k.data holds exactly the keys written so far, each with the value last
\* written (so its key set never shrinks), and what GetAll returned is what
\* k.data held at one instant between GetAll's call and its return.
C8_SnapshotIsOneState ==
  /\ DOMAIN data = {k \in Keys : commits[k] # <<>>}
  /\ \A k \in DOMAIN data : data[k] = Last(commits[k])
  /\ \A r \in Readers : pc[r] = "GetAll_done" => heap[copy[r]] \in obs[r].seen

\* C8's case: a GetAll that returned two keys, a Set having written during it.
C8_Witness ==
  \E r \in Readers :
    /\ pc[r] = "GetAll_done"
    /\ Cardinality(DOMAIN heap[copy[r]]) = 2
    /\ Cardinality(obs[r].seen) >= 2

\* C9: the map GetAll returned is no map anything else refers to (not k.data,
\* not another GetAll's map: writing to it writes to nothing else), and no
\* step changes it once GetAll has returned.
C9_SnapshotIsIndependent ==
  /\ [](\A r \in Readers :
          pc[r] = "GetAll_done" =>
            /\ copy[r] # DataRef
            /\ \A o \in Readers \ {r} : copy[o] # copy[r])
  /\ [][\A r \in Readers :
          (pc[r] = "GetAll_done" /\ pc'[r] = "GetAll_done")
            => heap'[copy'[r]] = heap[copy[r]]]_vars

\* C9's case: a GetAll has returned and a Set called after it has changed k.data.
C9_Witness ==
  \E r \in Readers :
    /\ pc[r] = "GetAll_done" /\ obs[r].quiet
    /\ heap[copy[r]] # <<>>
    /\ heap[copy[r]] # data

InConns == {conns[i] : i \in 1..Len(conns)}

\* C16: k.conns holds exactly the connections whose addConn has completed and
\* whose removeConn has not run yet, each of them once; and a connection leaves
\* k.conns in no step but its own removeConn's, whatever its sends returned.
C16_RegistryIsExact ==
  /\ [](InConns = Registered /\ Len(conns) = Cardinality(Registered))
  /\ [][\A c \in Conns :
         (c \in InConns /\ c \notin {conns'[i] : i \in 1..Len(conns')})
           => (pc[c] = "removeConn_scan" /\ pc'[c] = "closed")]_vars

\* C16's case: one connection has been removed, and the other, a send to
\* which has failed in a broadcast that is over, is still in k.conns.
C16_Witness ==
  /\ Removed # {}
  /\ \E i \in 1..Len(sent) :
       /\ ~sent[i].ok
       /\ pc[sent[i].by] = "Set_done"
       /\ sent[i].conn \in InConns

\* C11: a connection whose ReadMessage has returned an error is eventually
\* taken out of k.conns by its handler's removeConn, the scheduler being fair;
\* and once removeConn has returned no WriteMessage goes to that connection.
C11_ClosedIsRemoved ==
  /\ \A c \in Conns : (pc[c] = "removeConn") ~> (pc[c] = "closed" /\ c \notin InConns)
  /\ [][\A c \in Conns :
         (pc[c] = "closed" /\ Len(sent') > Len(sent)) => sent'[Len(sent')].conn # c]_vars

\* The number of writes of the map so far.
Writes == Cardinality(UNION {{<<k, i>> : i \in 1..Len(commits[k])} : k \in Keys})

\* C12: a /set request with an empty key or an empty value is answered 400,
\* and its step changes neither the map nor k.conns and sends nothing; a request
\* with both non-empty calls Set, which writes the map once, with that key and
\* value, and the request is answered 200 when Set has returned.
C12_EmptyIsRejected ==
  /\ [](/\ \A w \in Writers :
           /\ pc[w] = "rejected" => (resp[w] = StatusBad /\ call[w].ci = 0 /\ SendsBy(w) = {})
           /\ InFlight(w) => (key[w] # "" /\ value[w] # "" /\ resp[w] = NoReply)
           /\ pc[w] = "Set_done" =>
                /\ resp[w] = StatusOK
                /\ key[w] # "" /\ value[w] # ""
                /\ call[w].ci \in 1..Len(commits[key[w]])
                /\ commits[key[w]][call[w].ci] = value[w]
        /\ Writes = Cardinality({w \in Writers : pc[w] \in {"broadcast", "broadcast_loop", "Set_done"}}))
  /\ [][\A w \in Writers, k \in Keys \cup {""}, v \in Vals \cup {""} :
         setHandler(w, k, v) =>
           IF k = "" \/ v = ""
           THEN /\ pc'[w] = "rejected" /\ resp'[w] = StatusBad
                /\ heap' = heap /\ conns' = conns /\ sent' = sent /\ commits' = commits
           ELSE /\ pc'[w] = "Set" /\ key'[w] = k /\ value'[w] = v]_vars

\* C12's case: a request with an empty key or value has been rejected after
\* another one was stored, notified and answered.
C12_Witness ==
  \E w1, w2 \in Writers :
    /\ pc[w1] = "Set_done" /\ SendsBy(w1) # {}
    /\ pc[w2] = "rejected"

\* Goroutines inside Set, Get, GetAll, addConn or removeConn.
Busy ==
  {w \in Writers : InFlight(w)} \cup {r \in Readers : Reading(r)}
    \cup {c \in Conns : pc[c] \in {"addConn", "addConn_append", "removeConn", "removeConn_scan"}}

\* C13: with a fair scheduler and every WriteMessage returning, every Set that
\* is called returns; and there is no deadlock: while any goroutine is inside
\* Set, Get, GetAll, addConn or removeConn one of them can take a step, and
\* each of these calls returns.
C13_SetReturns ==
  /\ \A w \in Writers : InFlight(w) ~> (pc[w] = "Set_done" /\ resp[w] = StatusOK)
  /\ [](Busy # {} =>
          ENABLED (\/ \E w \in Writers : SetStep(w) \/ SendStep(w)
                   \/ \E r \in Readers : ReadStep(r)
                   \/ \E c \in Conns : ConnStep(c)))
  /\ \A r \in Readers : Reading(r) ~> (pc[r] \in {"Get_done", "GetAll_done"})
  /\ \A c \in Conns : (pc[c] = "addConn") ~> (c \in InConns)
  /\ \A c \in Conns : (pc[c] = "removeConn") ~> (pc[c] = "closed")

\* C13's case: two Sets that ran at the same time, each with a notification
\* to send, have both returned.
C13_Witness ==
  \E w1, w2 \in Done :
    /\ w1 \in call[w2].conc
    /\ SendsBy(w1) # {} /\ SendsBy(w2) # {}

\* C14: a goroutine that is sending, or that holds k.connMu, does not hold
\* k.mu, for writing or for reading; and with sends that may never return
\* every Get and GetAll still returns and every Set that is called still
\* writes its value into the map, where a Get finds it, and releases k.mu.
C14_SendOutsideMapLock ==
  /\ [](/\ \A w \in Writers : pc[w] \in {"broadcast", "broadcast_loop"} => mu.writer # w
        /\ connMu # None => (mu.writer # connMu /\ connMu \notin mu.readers))
  /\ \A r \in Readers : Reading(r) ~> (pc[r] \in {"Get_done", "GetAll_done"})
  /\ \A w \in Writers :
       PreCommit(w) ~> (/\ call[w].ci > 0 /\ mu.writer # w
                        /\ Lookup(data, key[w]) = <<Last(commits[key[w]]), TRUE>>)

\* C14's case: while one and the same send is in progress, a Set called during
\* it has written its value into the map and released k.mu.
C14_Witness ==
  \E s \in Sending, w \in Writers :
    /\ s \in call[w].during
    /\ call[w].ci > 0 /\ mu.writer = None
    /\ Lookup(data, key[w]) = <<value[w], TRUE>>

\* C15: of two Sets on different keys that ran at the same time, the one that
\* wrote the map first is notified first to every connection that was
\* registered during both and received both notifications.
C15_BroadcastInCommitOrder ==
  \A i, j \in 1..Len(sent) :
    LET A == sent[i].by
        B == sent[j].by
    IN  (/\ sent[i].conn = sent[j].conn /\ sent[i].ok /\ sent[j].ok
         /\ sent[i].conn \in call[A].stable \cap call[B].stable
         /\ key[A] # key[B]
         /\ (A \in call[B].conc \/ B \in call[A].conc)
         /\ call[A].gci < call[B].gci)
          => i < j

\* C18: with no Set running, the last notification for key k to a connection
\* that was registered during every Set on k, and whose sends all succeeded,
\* carries the value Get(k) returns.
C18_LastNotificationIsCurrent ==
  (\A w \in Writers : ~InFlight(w)) =>
    \A k \in Keys, c \in Registered :
      LET S == {i \in 1..Len(sent) : sent[i].conn = c /\ key[sent[i].by] = k}
      IN  (/\ S # {}
           /\ \A i \in S : sent[i].ok
           /\ \A w \in Done : key[w] = k => c \in call[w].stable)
            => \A i \in S :
                 (\A j \in S : j <= i) => sent[i].data = Marshal(k, Lookup(data, k)[1])

\* Goroutines inside k.connMu's critical sections.
InConnMu ==
  {w \in Writers : pc[w] = "broadcast_loop"}
    \cup {c \in Conns : pc[c] \in {"addConn_append", "removeConn_scan"}}

\* The connections writer w's broadcast has sent to so far, in order.
SentTo(w) ==
  LET S == SendsBy(w)
      nth(n) == CHOOSE i \in S : Cardinality({j \in S : j <= i}) = n
  IN  [n \in 1..Cardinality(S) |-> sent[nth(n)].conn]

\* C17: at most one goroutine is inside broadcast's loop, addConn's append or
\* removeConn's scan; the sends of one broadcast are not interleaved with
\* another's, so two broadcasts reach any two connections in the same order;
\* and k.conns does not change while a broadcast loops: a broadcast sends to
\* k.conns as it was when the loop started, from its first element on.
C17_BroadcastIsAtomic ==
  /\ [](/\ Cardinality(InConnMu) <= 1
        /\ InConnMu = (IF connMu = None THEN {} ELSE {connMu})
        /\ \A i, j, l \in 1..Len(sent) :
             (i < j /\ j < l /\ sent[i].by = sent[l].by) => sent[j].by = sent[i].by
        /\ \A i1, j1, i2, j2 \in 1..Len(sent) :
             (/\ sent[i1].by = sent[i2].by /\ sent[j1].by = sent[j2].by
              /\ sent[i1].conn = sent[j1].conn /\ sent[i2].conn = sent[j2].conn)
               => (i1 < j1 <=> i2 < j2)
        /\ \A w \in Writers :
             pc[w] = "broadcast_loop" => SentTo(w) = SubSeq(conns, 1, idx[w] - 1))
  /\ [][(\E w \in Writers : pc[w] = "broadcast_loop") => conns' = conns]_vars

\* C17's case: two broadcasts have each sent to the same two connections, and
\* both Sets have returned.
C17_Witness ==
  \E w1, w2 \in Done, c1, c2 \in Conns :
    /\ w1 # w2 /\ c1 # c2
    /\ SendsTo(w1, c1) # {} /\ SendsTo(w1, c2) # {}
    /\ SendsTo(w2, c1) # {} /\ SendsTo(w2, c2) # {}

\* C19: a step of a Get or a GetAll, found or not, changes neither k.data nor
\* k.conns; k.data changes only in a Set's write, which sets its own key to
\* its value and leaves every other key and k.conns as they were; k.conns
\* changes only in addConn's append and removeConn's scan, which leave k.data
\* as it was.
C19_FrameOfEachOperation ==
  [][/\ \A r \in Readers : pc'[r] # pc[r] => (data' = data /\ conns' = conns)
     /\ \A w \in Writers : pc'[w] # pc[w] => conns' = conns
     /\ \A c \in Conns : pc'[c] # pc[c] => data' = data
     /\ data' # data =>
          \E w \in Writers :
            /\ pc[w] = "Set_write" /\ pc'[w] = "broadcast"
            /\ Lookup(data', key[w]) = <<value[w], TRUE>>
            /\ \A k \in Keys \ {key[w]} : Lookup(data', k) = Lookup(data, k)
            /\ DOMAIN data' = DOMAIN data \cup {key[w]}
     /\ conns' # conns =>
          \E c \in Conns : pc[c] \in {"addConn_append", "removeConn_scan"} /\ pc'[c] # pc[c]]_vars

\* C19's case: a Get has returned not-found, two Sets on different keys have
\* written the map since, and a connection is registered.
C19_Witness ==
  /\ \E r \in Readers : pc[r] = "Get_done" /\ ~rval[r][2]
  /\ \A k \in Keys : Lookup(data, k)[2]
  /\ conns # <<>>
====
